---- MODULE Spec2Model ----
(***************************************************************************)
(* A model of the XML library: the Element tree with its parent links and   *)
(* queries (node.ts), the lexer and recursive-descent parser (parser.ts),   *)
(* serialisation (node.ts, util.ts) and the mapper builder (map.ts).        *)
(*                                                                          *)
(* A JavaScript string is a sequence of UTF-16 code units (naturals).       *)
(* `undefined` is Undefined.  A thrown exception is a value's err field.    *)
(***************************************************************************)
EXTENDS Integers, Sequences, FiniteSets, TLC

(***************************************************************************)
(* Bounds of the model.                                                     *)
(***************************************************************************)
\* Elements that exist in the tree model.
NumElems == 3
\* Longest child sequence a text node may still be added to.
MaxChildren == 1
\* Elements that XmlElement.of constructs in the query model, and the longest
\* list of children it is given.
NumBuilt == 4
MaxKids == 2

(***************************************************************************)
(* Characters and strings.                                                  *)
(***************************************************************************)
\* `undefined`: what peek() returns at the end, an absent parent, an absent field.
Undefined == -1

\* charCodeAt(0) of the characters the model writes literally.
Ord ==
  [c \in {"\t", "\n", "\r", " ", "!", "\"", "#", "&", "'", "/", "0", "1", "2",
          "8", "9", ":", ";", "<", "=", ">", "?", "A", "D", "F", "G", "I", "U",
          "X", "Z", "a", "b", "c", "d", "e", "f", "g", "i", "l", "m", "n", "o",
          "p", "q", "r", "s", "t", "u", "x", "z"} |->
     CASE c = "\t" -> 9   [] c = "\n" -> 10  [] c = "\r" -> 13  [] c = " " -> 32
       [] c = "!" -> 33   [] c = "\"" -> 34  [] c = "#" -> 35   [] c = "&" -> 38
       [] c = "'" -> 39   [] c = "/" -> 47   [] c = "0" -> 48   [] c = "1" -> 49
       [] c = "2" -> 50   [] c = "8" -> 56   [] c = "9" -> 57   [] c = ":" -> 58
       [] c = ";" -> 59   [] c = "<" -> 60   [] c = "=" -> 61   [] c = ">" -> 62
       [] c = "?" -> 63   [] c = "A" -> 65   [] c = "D" -> 68   [] c = "F" -> 70
       [] c = "G" -> 71   [] c = "I" -> 73   [] c = "U" -> 85   [] c = "X" -> 88
       [] c = "Z" -> 90   [] c = "a" -> 97   [] c = "b" -> 98   [] c = "c" -> 99
       [] c = "d" -> 100  [] c = "f" -> 102  [] c = "g" -> 103  [] c = "l" -> 108
       [] c = "m" -> 109  [] c = "o" -> 111  [] c = "p" -> 112  [] c = "q" -> 113
       [] c = "s" -> 115  [] c = "t" -> 116  [] c = "u" -> 117  [] c = "x" -> 120
       [] c = "z" -> 122  [] c = "e" -> 101  [] c = "i" -> 105  [] c = "n" -> 110
       [] c = "r" -> 114]

\* A string literal, written as the tuple of its characters.
Str(t) == [i \in 1..Len(t) |-> Ord[t[i]]]

\* The value of an absent string (an XmlQuery field that is not set).
UndefinedStr == <<Undefined>>

\* "\r" and "\n", which Lexer.consumeOrEnd counts lines by.
CR == 13
LF == 10

(***************************************************************************)
(* XmlName (node.ts).                                                       *)
(***************************************************************************)
XmlName(prefix, name) == [prefix |-> prefix, name |-> name]

\* XmlName.equals
NameEquals(a, b) == a.prefix = b.prefix /\ a.name = b.name

\* XmlName.toString
NameToString(n) ==
  IF Len(n.prefix) # 0 THEN n.prefix \o Str(<<":">>) \o n.name ELSE n.name

(***************************************************************************)
(* Elements as values: what the parser builds and toString reads.  The      *)
(* parser only ever appends a new child to the Element it is filling, so    *)
(* an Element is its name, its attrs and the sequence of its children.      *)
(***************************************************************************)
XmlText(t) == [kind |-> "text", text |-> t]

\* new XmlElement(undefined, name, attrs), with the children it has by now.
XmlElement(name, attrs, kids) ==
  [kind |-> "elem", name |-> name, attrs |-> attrs, children |-> kids]

\* No Element: the root of a parse that threw.
NoElem == [kind |-> "none"]

\* parentElem.addChild(child) at the default position, child having no parent.
appendChild(parentElem, child) ==
  [parentElem EXCEPT !.children = Append(@, child)]

(***************************************************************************)
(* Errors thrown while parsing.                                             *)
(***************************************************************************)
NoErr == [type |-> "none", description |-> "", line |-> 0, col |-> 0]

\* new XmlParseError(description, line, col); the description is kept
\* without the values interpolated into it.
XmlParseError(description, line, col) ==
  [type |-> "XmlParseError", description |-> description,
   line |-> line, col |-> col]

\* The TypeError the runtime throws when a property of undefined is read.
TypeError == [type |-> "TypeError", description |-> "", line |-> 0, col |-> 0]

\* What a step of the parser gives: the Lexer after it, the value returned
\* and the error thrown (NoErr when it returned).
Res(l, v, e) == [l |-> l, v |-> v, err |-> e]

Threw(res) == res.err # NoErr

\* The statements after a step: they run on what the step returned, and a
\* step that threw is passed on to the caller.
Then(res, rest(_)) == IF Threw(res) THEN res ELSE rest(res)

(***************************************************************************)
(* Lexer (parser.ts): next, line and col over the readonly src.             *)
(***************************************************************************)
NewLexer == [next |-> 0, line |-> 1, col |-> 0]

\* Lexer.err
lexErr(l, msg) == XmlParseError(msg, l.line, l.col)

\* src[i], undefined outside the string.
CharAt(src, i) == IF i >= 0 /\ i < Len(src) THEN src[i + 1] ELSE Undefined

peek(src, l) == CharAt(src, l.next)

isEnd(src, l) == peek(src, l) = Undefined

consumeOrEnd(src, l) ==
  LET char == CharAt(src, l.next)
  IN IF char = Undefined THEN Res(l, char, NoErr)
     ELSE IF char = CR \/ (char = LF /\ CharAt(src, l.next - 1) # CR)
       THEN Res([next |-> l.next + 1, line |-> l.line + 1, col |-> 0],
                char, NoErr)
     ELSE IF char # LF
       THEN Res([next |-> l.next + 1, line |-> l.line, col |-> l.col + 1],
                char, NoErr)
       ELSE Res([next |-> l.next + 1, line |-> l.line, col |-> l.col],
                char, NoErr)

consume(src, l) ==
  Then(consumeOrEnd(src, l), LAMBDA b :
    IF b.v = Undefined
      THEN Res(b.l, b.v, lexErr(b.l, "Unexpected end"))
      ELSE b)

expect(src, l, c) ==
  Then(consume(src, l), LAMBDA b :
    IF b.v # c
      THEN Res(b.l, b.v, lexErr(b.l, "Expected c but got b"))
      ELSE b)

expectOneOf(src, l, charset) ==
  Then(consume(src, l), LAMBDA got :
    IF got.v \notin charset
      THEN Res(got.l, got.v, lexErr(got.l, "Expected one of charset but got"))
      ELSE got)

maybeExpect(src, l, c) ==
  IF c = peek(src, l)
    THEN Res(consume(src, l).l, TRUE, NoErr)
    ELSE Res(l, FALSE, NoErr)

maybeExpectOneOf(src, l, c) ==
  IF peek(src, l) # Undefined /\ peek(src, l) \in c
    THEN consume(src, l)
    ELSE Res(l, Undefined, NoErr)

\* At the end of src this calls consume(), which throws.
maybeExpectNotOneOf(src, l, c) ==
  IF peek(src, l) = Undefined \/ peek(src, l) \notin c
    THEN consume(src, l)
    ELSE Res(l, Undefined, NoErr)

\* The loop of consumeWhile and of expectOneOrMoreOf: the characters of
\* charset from the cursor on.
RECURSIVE consumeWhileFrom(_, _, _, _)
consumeWhileFrom(src, l, charset, chars) ==
  Then(maybeExpectOneOf(src, l, charset), LAMBDA char :
    IF char.v # Undefined
      THEN consumeWhileFrom(src, char.l, charset, Append(chars, char.v))
      ELSE Res(l, chars, NoErr))

consumeWhile(src, l, charset) == consumeWhileFrom(src, l, charset, <<>>)

expectOneOrMoreOf(src, l, charset, expectName) ==
  Then(consumeWhileFrom(src, l, charset, <<>>), LAMBDA got :
    IF Len(got.v) = 0
      THEN Res(got.l, got.v, lexErr(got.l, expectName))
      ELSE got)

skipIf(src, l, c) ==
  IF peek(src, l) = c
    THEN Res(consume(src, l).l, TRUE, NoErr)
    ELSE Res(l, FALSE, NoErr)

RECURSIVE skipWhileFrom(_, _, _, _)
skipWhileFrom(src, l, charset, count) ==
  Then(maybeExpectOneOf(src, l, charset), LAMBDA char :
    IF char.v # Undefined
      THEN skipWhileFrom(src, char.l, charset, count + 1)
      ELSE Res(l, count, NoErr))

skipWhile(src, l, charset) == skipWhileFrom(src, l, charset, 0)

RECURSIVE skipUntilFrom(_, _, _, _)
skipUntilFrom(src, l, charset, count) ==
  Then(maybeExpectNotOneOf(src, l, charset), LAMBDA char :
    IF char.v # Undefined
      THEN skipUntilFrom(src, char.l, charset, count + 1)
      ELSE Res(l, count, NoErr))

skipUntil(src, l, charset) == skipUntilFrom(src, l, charset, 0)

(***************************************************************************)
(* Character classes and the entity decoder (parser.ts).                    *)
(***************************************************************************)
\* r(from, to): the characters from `from` to `to`, as a set.
CharRange(from, to) == Ord[from]..Ord[to]

LOWERCASE == CharRange("a", "z")
UPPERCASE == CharRange("A", "Z")
DIGIT == CharRange("0", "9")
HEX == CharRange("a", "f") \cup CharRange("A", "F") \cup DIGIT
ALPHANUMERIC == LOWERCASE \cup UPPERCASE \cup DIGIT
WHITESPACE == {Ord[" "], Ord["\r"], Ord["\n"], Ord["\t"]}
QUOTE == {Ord["'"], Ord["\""]}

\* The table of named entities; a name outside its domain reads undefined.
\* (No lowercase name inherited from Object.prototype is a string either, so
\* every such name ends in the same TypeError.)
ENTITY_REFS ==
  (Str(<<"a", "m", "p">>) :> Str(<<"&">>))
    @@ (Str(<<"a", "p", "o", "s">>) :> Str(<<"'">>))
    @@ (Str(<<"g", "t">>) :> Str(<<">">>))
    @@ (Str(<<"l", "t">>) :> Str(<<"<">>))
    @@ (Str(<<"q", "u", "o", "t">>) :> Str(<<"\"">>))

\* The value of a digit of Number.parseInt.
DigitValue(c) ==
  IF c \in DIGIT THEN c - Ord["0"]
  ELSE IF c \in CharRange("a", "f") THEN c - Ord["a"] + 10
  ELSE c - Ord["A"] + 10

\* Number.parseInt(num, radix) for a num of digits of that radix.
RECURSIVE parseIntFrom(_, _, _)
parseIntFrom(num, radix, acc) ==
  IF Len(num) = 0 THEN acc
  ELSE parseIntFrom(Tail(num), radix, acc * radix + DigitValue(Head(num)))

parseInt(num, radix) == parseIntFrom(num, radix, 0)

\* String.fromCodePoint(cp) throws a RangeError exactly for these cp.
fromCodePointThrows(cp) == cp < 0 \/ cp > 1114111

\* String.fromCodePoint(cp): one code unit below 0x10000 (lone surrogates
\* included), else a surrogate pair.
fromCodePoint(cp) ==
  IF cp < 65536 THEN <<cp>>
  ELSE <<55296 + ((cp - 65536) \div 1024), 56320 + ((cp - 65536) % 1024)>>

parseName(src, l) ==
  Then(expectOneOrMoreOf(src, l, ALPHANUMERIC,
                         "Expected element/attribute name"), LAMBDA name :
  Then(maybeExpect(src, name.l, Ord[":"]), LAMBDA colon :
    IF ~colon.v THEN Res(colon.l, XmlName(<<>>, name.v), NoErr)
    ELSE
  Then(expectOneOrMoreOf(src, colon.l, ALPHANUMERIC,
                         "Expected prefixed element/attribute name"),
       LAMBDA local :
    Res(local.l, XmlName(name.v, local.v), NoErr))))

\* The end of parseEntity: l.expect(";"), then String.fromCodePoint(cp) in
\* the try block.
entityText(src, l, cp) ==
  Then(expect(src, l, Ord[";"]), LAMBDA semi :
    IF fromCodePointThrows(cp)
      THEN Res(semi.l, <<>>,
               lexErr(semi.l, "Entity refers to invalid Unicode code point"))
      ELSE Res(semi.l, fromCodePoint(cp), NoErr))

\* parseEntity after "&#".
numericEntity(src, l) ==
  Then(skipIf(src, l, Ord["x"]), LAMBDA x :
  Then(IF x.v THEN x ELSE skipIf(src, l, Ord["X"]), LAMBDA isHex :
  Then(consumeWhile(src, isHex.l, IF isHex.v THEN HEX ELSE DIGIT), LAMBDA num :
    IF isHex.v /\ (Len(num.v) < 1 \/ Len(num.v) > 6)
      THEN Res(num.l, <<>>, lexErr(num.l, "Hexadecimal entity is invalid"))
    ELSE IF ~isHex.v /\ (Len(num.v) < 1 \/ Len(num.v) > 7)
      THEN Res(num.l, <<>>, lexErr(num.l, "Decimal entity is invalid"))
    ELSE entityText(src, num.l,
                    parseInt(num.v, IF isHex.v THEN 16 ELSE 10)))))

\* parseEntity after "&" with no "#": ENTITY_REFS[name].charCodeAt(0) is a
\* TypeError when ENTITY_REFS[name] is undefined.
namedEntity(src, l) ==
  Then(consumeWhile(src, l, LOWERCASE), LAMBDA name :
    IF name.v \notin DOMAIN ENTITY_REFS THEN Res(name.l, <<>>, TypeError)
    ELSE IF ENTITY_REFS[name.v][1] = 0
      THEN Res(name.l, <<>>, lexErr(name.l, "Invalid entity reference"))
    ELSE entityText(src, name.l, ENTITY_REFS[name.v][1]))

parseEntity(src, l) ==
  Then(expect(src, l, Ord["&"]), LAMBDA amp :
  Then(skipIf(src, amp.l, Ord["#"]), LAMBDA hash :
    IF hash.v THEN numericEntity(src, hash.l)
    ELSE namedEntity(src, hash.l)))

\* parts.push(l.consume())
consumePart(src, l) ==
  Then(consume(src, l), LAMBDA b : Res(b.l, <<b.v>>, NoErr))

\* The loop of parseTextOrValue, parts joined as they are pushed.
RECURSIVE parseTextFrom(_, _, _, _)
parseTextFrom(src, l, delimiter, parts) ==
  IF peek(src, l) = Undefined \/ peek(src, l) = delimiter
    THEN Res(l, parts, NoErr)
  ELSE
  Then(IF peek(src, l) = Ord["&"]
         THEN parseEntity(src, l) ELSE consumePart(src, l), LAMBDA part :
    parseTextFrom(src, part.l, delimiter, parts \o part.v))

parseTextOrValue(src, l, delimiter) == parseTextFrom(src, l, delimiter, <<>>)

(***************************************************************************)
(* The parser (parser.ts).                                                  *)
(***************************************************************************)
\* parseContent after "<!": skipped up to the next ">".
skipMarkup(src, l) ==
  Then(skipUntil(src, l, {Ord[">"]}), LAMBDA s : expect(src, s.l, Ord[">"]))

\* parseContent after "<?": skipped up to "?>", quoted regions passed over.
RECURSIVE skipInstruction(_, _)
skipInstruction(src, l) ==
  Then(skipUntil(src, l, {Ord["\""], Ord["?"]}), LAMBDA s :
  Then(skipIf(src, s.l, Ord["\""]), LAMBDA quoted :
    IF ~quoted.v
      THEN Then(expect(src, quoted.l, Ord["?"]), LAMBDA q :
             expect(src, q.l, Ord[">"]))
    ELSE
  Then(skipUntil(src, quoted.l, {Ord["\""]}), LAMBDA inQuotes :
  Then(expect(src, inQuotes.l, Ord["\""]), LAMBDA unquote :
    skipInstruction(src, unquote.l)))))

\* What the loop over the attributes gives of an opening tag.
Tag(attrs, selfClosing) == [attrs |-> attrs, selfClosing |-> selfClosing]

\* The loop over the attributes of an opening tag, up to its ">" or "/>".
RECURSIVE parseAttrs(_, _, _)
parseAttrs(src, l, attrs) ==
  Then(skipWhile(src, l, WHITESPACE), LAMBDA ws :
  Then(skipIf(src, ws.l, Ord["/"]), LAMBDA slash :
    IF slash.v
      THEN Then(expect(src, slash.l, Ord[">"]), LAMBDA close :
             Res(close.l, Tag(attrs, TRUE), NoErr))
    ELSE
  Then(skipIf(src, slash.l, Ord[">"]), LAMBDA gt :
    IF gt.v THEN Res(gt.l, Tag(attrs, FALSE), NoErr)
    ELSE
  Then(parseName(src, gt.l), LAMBDA attrName :
  Then(skipWhile(src, attrName.l, WHITESPACE), LAMBDA ws1 :
  Then(expect(src, ws1.l, Ord["="]), LAMBDA eq :
  Then(skipWhile(src, eq.l, WHITESPACE), LAMBDA ws2 :
  Then(expectOneOf(src, ws2.l, QUOTE), LAMBDA attrQuote :
  Then(parseTextOrValue(src, attrQuote.l, attrQuote.v), LAMBDA attrValue :
  Then(expect(src, attrValue.l, attrQuote.v), LAMBDA endQuote :
    parseAttrs(src, endQuote.l,
               Append(attrs, <<attrName.v, attrValue.v>>))))))))))))

\* What one round of the loop of parseContent gives: parentElem with the
\* children added by now, and whether the loop was left.
Round(parentElem, left) == [elem |-> parentElem, left |-> left]

\* parseContent at a closing tag whose name has been read.
closingTag(src, l, name, parentElem) ==
  IF Len(parentElem.name.name) = 0
    THEN Res(l, Round(parentElem, TRUE), lexErr(l, "Unexpected closing tag"))
  ELSE IF ~NameEquals(name, parentElem.name)
    THEN Res(l, Round(parentElem, TRUE), lexErr(l, "Mismatched closing tag"))
  ELSE
  Then(skipWhile(src, l, WHITESPACE), LAMBDA ws :
  Then(expect(src, ws.l, Ord[">"]), LAMBDA gt :
    Res(gt.l, Round(parentElem, TRUE), NoErr)))

\* parseContent(l, parentElem): gives parentElem with the children added.
\* The loop is left at the closing tag and also where src ends.
RECURSIVE parseContent(_, _, _)

\* An opening tag whose name has been read: its attributes, its content
\* unless it is self-closing, and parentElem.addChild(elem).
openingTag(src, l, name, parentElem) ==
  Then(parseAttrs(src, l, <<>>), LAMBDA tag :
  Then(IF tag.v.selfClosing
         THEN Res(tag.l, XmlElement(name, tag.v.attrs, <<>>), NoErr)
         ELSE parseContent(src, tag.l, XmlElement(name, tag.v.attrs, <<>>)),
       LAMBDA elem :
    Res(elem.l, Round(appendChild(parentElem, elem.v), FALSE), NoErr)))

\* One round of the loop of parseContent, after a "<" has been read.
markup(src, l, parentElem) ==
  Then(skipIf(src, l, Ord["!"]), LAMBDA bang :
    IF bang.v
      THEN Then(skipMarkup(src, bang.l), LAMBDA skipped :
             Res(skipped.l, Round(parentElem, FALSE), NoErr))
    ELSE
  Then(skipIf(src, bang.l, Ord["?"]), LAMBDA quest :
    IF quest.v
      THEN Then(skipInstruction(src, quest.l), LAMBDA skipped :
             Res(skipped.l, Round(parentElem, FALSE), NoErr))
    ELSE
  Then(skipIf(src, quest.l, Ord["/"]), LAMBDA isClosing :
  Then(parseName(src, isClosing.l), LAMBDA name :
    IF isClosing.v
      THEN closingTag(src, name.l, name.v, parentElem)
      ELSE openingTag(src, name.l, name.v, parentElem)))))

\* One round of the loop of parseContent.
contentRound(src, l, parentElem) ==
  Then(parseTextOrValue(src, l, Ord["<"]), LAMBDA text :
    IF Len(text.v) # 0
      THEN Res(text.l, Round(appendChild(parentElem, XmlText(text.v)), FALSE),
               NoErr)
    ELSE IF isEnd(src, text.l)
      THEN Res(text.l, Round(parentElem, TRUE), NoErr)
    ELSE
  Then(expect(src, text.l, Ord["<"]), LAMBDA lt :
    markup(src, lt.l, parentElem)))

parseContent(src, l, parentElem) ==
  Then(contentRound(src, l, parentElem), LAMBDA round :
    IF round.v.left THEN Res(round.l, round.v.elem, NoErr)
    ELSE parseContent(src, round.l, round.v.elem))

\* The white space String.prototype.trim removes.
TrimSpace ==
  {9, 10, 11, 12, 13, 32, 160, 5760, 8232, 8233, 8239, 8287, 12288, 65279}
    \cup (8192..8202)

\* !c.trim()
IsBlank(c) == \A i \in 1..Len(c) : c[i] \in TrimSpace

\* What parseXml gives: the root returned, or the error thrown.
Parsed(root, e) == [root |-> root, err |-> e]

\* The loop of parseXml over dummyRoot.children, and the test after it.
RECURSIVE pickRoot(_, _)
pickRoot(cs, root) ==
  IF Len(cs) = 0
    THEN IF root = NoElem
           THEN Parsed(NoElem,
                  XmlParseError("XML document does not have root element", 1, 0))
           ELSE Parsed(root, NoErr)
  ELSE IF Head(cs).kind = "text" /\ ~IsBlank(Head(cs).text)
    THEN Parsed(NoElem,
           XmlParseError("XML document has top-level non-whitespace text", 1, 0))
  ELSE IF Head(cs).kind # "text" /\ root # NoElem
    THEN Parsed(NoElem,
           XmlParseError("XML document has multiple top level elements", 1, 0))
  ELSE pickRoot(Tail(cs), IF Head(cs).kind = "text" THEN root ELSE Head(cs))

\* parseXml(xml); no parent is kept in an Element value, so root.detach()
\* changes nothing of it.
parseXml(xml) ==
  LET content == parseContent(xml, NewLexer,
                              XmlElement(XmlName(<<>>, <<>>), <<>>, <<>>))
  IN IF Threw(content) THEN Parsed(NoElem, content.err)
     ELSE pickRoot(content.v.children, NoElem)

(***************************************************************************)
(* Serialisation (node.ts, util.ts).                                        *)
(***************************************************************************)
\* raw.replaceAll(c, by) for a character c.
RECURSIVE replaceAll(_, _, _)
replaceAll(raw, c, by) ==
  IF Len(raw) = 0 THEN <<>>
  ELSE (IF Head(raw) = c THEN by ELSE <<Head(raw)>>)
         \o replaceAll(Tail(raw), c, by)

encodeXmlEntities(raw) ==
  replaceAll(
    replaceAll(
      replaceAll(
        replaceAll(
          replaceAll(raw, Ord["&"], Str(<<"&", "a", "m", "p", ";">>)),
          Ord["<"], Str(<<"&", "l", "t", ";">>)),
        Ord["\""], Str(<<"&", "q", "u", "o", "t", ";">>)),
      Ord["'"], Str(<<"&", "a", "p", "o", "s", ";">>)),
    Ord[">"], Str(<<"&", "g", "t", ";">>))

\* The attributes of toString: ` ${name}="${encodeXmlEntities(value)}"` each.
RECURSIVE attrsToString(_)
attrsToString(attrs) ==
  IF Len(attrs) = 0 THEN <<>>
  ELSE Str(<<" ">>) \o NameToString(Head(attrs)[1]) \o Str(<<"=", "\"">>)
         \o encodeXmlEntities(Head(attrs)[2]) \o Str(<<"\"">>)
         \o attrsToString(Tail(attrs))

\* XmlElement.toString, and this.children.join(""): a text child is joined
\* as it is, an Element child by its toString.
RECURSIVE toString(_)
RECURSIVE joinChildren(_)
toString(this) ==
  Str(<<"<">>) \o NameToString(this.name) \o attrsToString(this.attrs)
    \o (IF Len(this.children) # 0
          THEN Str(<<">">>) \o joinChildren(this.children)
                 \o Str(<<"<", "/">>) \o NameToString(this.name) \o Str(<<">">>)
          ELSE Str(<<"/", ">">>))

joinChildren(cs) ==
  IF Len(cs) = 0 THEN <<>>
  ELSE (IF Head(cs).kind = "text" THEN Head(cs).text ELSE toString(Head(cs)))
         \o joinChildren(Tail(cs))

(***************************************************************************)
(* XmlElementMapperBuilder (map.ts).  Validator, Dict and Counter are       *)
(* libraries outside the repository: a Validator parses a raw string or     *)
(* throws, a Dict maps a name to the entry stored under it, a Counter keeps *)
(* a count per name that decrement lowers by one, below zero too (the       *)
(* repository's test maps two User children under oneOrMore).               *)
(***************************************************************************)
\* The mappings a builder method pushes.
AttrMapping(n, ign, opt, v) ==
  [name |-> n, ignore |-> ign, optional |-> opt, validator |-> v]

ElemMapping(n, md, ign, mn, mp) ==
  [name |-> n, mode |-> md, ignore |-> ign, min |-> mn, mapper |-> mp]

TextMapping(n, ign, v) == [name |-> n, ignore |-> ign, validator |-> v]

\* textMapping when it is undefined.
NoTextMapping == TextMapping(UndefinedStr, FALSE, "none")

\* What validator.parse(path, raw) throws.
ValidatorAccepts(validator, raw) ==
  validator = "VInteger" =>
    Len(raw) # 0 /\ \A i \in 1..Len(raw) : raw[i] \in DIGIT

\* What validator.parse(path, raw) returns: the raw string stands for the
\* value parsed from it.
ValidatorParse(validator, raw) == raw

\* m.mapper(child, childPath): () => void 0 for an ignore rule, else the
\* mapper the rule was given, which here gives the record of the child's
\* attributes' values as the mapper of the repository's test does.
ApplyMapper(mapper, child) ==
  IF mapper = "void" THEN [id |-> UndefinedStr]
  ELSE [id |-> IF Len(child.attrs) = 0 THEN UndefinedStr ELSE child.attrs[1][2]]

\* Dict.get(name) on the Dict made of the mappings: the index of the last
\* mapping stored under name, 0 when there is none.
DictGet(mappings, name) ==
  IF \A i \in 1..Len(mappings) : mappings[i].name # name THEN 0
  ELSE CHOOSE i \in 1..Len(mappings) :
         /\ mappings[i].name = name
         /\ \A j \in (i + 1)..Len(mappings) : mappings[j].name # name

\* An error thrown by the projection: path.isBadAsIt(...) with the names and
\* the count its message holds, or what a Validator threw.
MapErr(t, ns, c) == [type |-> t, names |-> ns, count |-> c]

NoMapErr == MapErr("none", <<>>, 0)

\* a < b or a = b as strings of UTF-16 code units, the order of
\* Array.prototype.sort() with no comparator.
RECURSIVE StrLeq(_, _)
StrLeq(a, b) ==
  IF Len(a) = 0 THEN TRUE
  ELSE IF Len(b) = 0 THEN FALSE
  ELSE IF Head(a) # Head(b) THEN Head(a) < Head(b)
  ELSE StrLeq(Tail(a), Tail(b))

\* [...remainingAttrs].sort()
RECURSIVE sortNames(_)
sortNames(names) ==
  IF names = {} THEN <<>>
  ELSE LET least == CHOOSE n \in names : \A o \in names : StrLeq(n, o)
       IN <<least>> \o sortNames(names \ {least})

\* res[name] = val
Put(res, name, val) ==
  [n \in DOMAIN res \cup {name} |-> IF n = name THEN val ELSE res[n]]

\* build(): what the returned closure holds.
build(en, am, em, tm) ==
  [expectedName |-> en,
   requiredAttrNames |-> {am[i].name : i \in {j \in 1..Len(am) : ~am[j].optional}},
   requiredElemCounts |->
     [i \in 1..Len(em) |->
        <<em[i].name,
          IF em[i].mode = "optional" THEN 0
          ELSE IF em[i].mode = "required" THEN 1
          ELSE IF em[i].min = Undefined THEN 0 ELSE em[i].min>>],
   attrMappings |-> am,
   elemMappings |-> em,
   repeatedElemNames |->
     {em[i].name : i \in {j \in 1..Len(em) : em[j].mode = "repeated"}},
   textMapping |-> tm]

\* No closure: build() has not been called.
NotBuilt == build(UndefinedStr, <<>>, <<>>, TextMapping(UndefinedStr, FALSE, "unbuilt"))

\* The state of the projection while it runs: res, the attribute names not
\* seen yet, seenText, the Counter and the error thrown.
Run(r, ra, st, cs, e) ==
  [res |-> r, remainingAttrs |-> ra, seenText |-> st, counts |-> cs, err |-> e]

Fail(run, e) == [run EXCEPT !.err = e]

\* attrRound without `if (!m.ignore)`.
attrRound_StoresIgnored(p, name, value, m, run) ==
  IF m = 0 THEN Fail(run, MapErr("UnexpectedAttribute", <<NameToString(name)>>, 0))
  ELSE IF ~ValidatorAccepts(p.attrMappings[m].validator, value)
    THEN Fail(run, MapErr("ValidationError", <<NameToString(name)>>, 0))
  ELSE [run EXCEPT
          !.remainingAttrs = @ \ {name.name},
          !.res = Put(@, name.name,
                      ValidatorParse(p.attrMappings[m].validator, value))]

\* One round of the loop over elem.attrs that is not skipped, m being the
\* index of the mapping of the attribute.
attrRound(p, name, value, m, run) ==
  IF m = 0 THEN Fail(run, MapErr("UnexpectedAttribute", <<NameToString(name)>>, 0))
  ELSE IF ~ValidatorAccepts(p.attrMappings[m].validator, value)
    THEN Fail(run, MapErr("ValidationError", <<NameToString(name)>>, 0))
  ELSE [run EXCEPT
          !.remainingAttrs = @ \ {name.name},
          !.res = IF p.attrMappings[m].ignore THEN @
                  ELSE Put(@, name.name,
                           ValidatorParse(p.attrMappings[m].validator, value))]

\* The loop over elem.attrs and the test of remainingAttrs after it.
RECURSIVE attrsPass(_, _, _)
attrsPass(p, attrs, run) ==
  IF run.err # NoMapErr THEN run
  ELSE IF Len(attrs) = 0
    THEN IF run.remainingAttrs # {}
           THEN Fail(run, MapErr("MissingAttributes", sortNames(run.remainingAttrs), 0))
           ELSE run
  ELSE attrsPass(p, Tail(attrs),
         IF Head(attrs)[1].prefix = Str(<<"x", "m", "l", "n", "s">>)
              \/ NameToString(Head(attrs)[1]) = Str(<<"x", "m", "l", "n", "s">>)
           THEN run
           ELSE attrRound(p, Head(attrs)[1], Head(attrs)[2],
                          DictGet(p.attrMappings, Head(attrs)[1].name), run))

\* One round of the loop over elem.children for a text child.
textRound(p, child, run) ==
  IF p.textMapping # NoTextMapping
    THEN IF run.seenText
           THEN IF ~IsBlank(child.text)
                  THEN Fail(run, MapErr("UnexpectedText", <<>>, 0))
                  ELSE run
         ELSE IF ~ValidatorAccepts(p.textMapping.validator, child.text)
           THEN Fail([run EXCEPT !.seenText = TRUE],
                     MapErr("ValidationError", <<>>, 0))
         ELSE [run EXCEPT
                 !.seenText = TRUE,
                 !.res = IF p.textMapping.ignore THEN @
                         ELSE Put(@, p.textMapping.name,
                                  ValidatorParse(p.textMapping.validator,
                                                 child.text))]
  ELSE IF ~IsBlank(child.text)
    THEN Fail(run, MapErr("UnexpectedText", <<>>, 0))
    ELSE run

\* One round of the loop over elem.children for an Element child, m being
\* the index of the mapping of its name.
elemRound(p, child, m, run) ==
  IF m = 0
    THEN Fail(run, MapErr("UnexpectedChild", <<NameToString(child.name)>>, 0))
  ELSE [run EXCEPT
          !.counts = [@ EXCEPT ![child.name.name] = @ - 1],
          !.res = IF p.elemMappings[m].ignore THEN @
                  ELSE IF p.elemMappings[m].mode = "repeated"
                    THEN [@ EXCEPT ![child.name.name] =
                            Append(@, ApplyMapper(p.elemMappings[m].mapper, child))]
                  ELSE Put(@, child.name.name,
                           ApplyMapper(p.elemMappings[m].mapper, child))]

\* The loop over elem.children.
RECURSIVE childrenPass(_, _, _)
childrenPass(p, cs, run) ==
  IF run.err # NoMapErr \/ Len(cs) = 0 THEN run
  ELSE childrenPass(p, Tail(cs),
         IF Head(cs).kind = "text" THEN textRound(p, Head(cs), run)
         ELSE elemRound(p, Head(cs),
                        DictGet(p.elemMappings, Head(cs).name.name), run))

\* After the loop: the first entry of remainingElemCounts.positiveEntries()
\* throws, then a text that was expected and not seen.
missingPass(p, run) ==
  IF run.err # NoMapErr THEN run
  ELSE IF \E i \in 1..Len(p.requiredElemCounts) :
            run.counts[p.requiredElemCounts[i][1]] > 0
    THEN LET i == CHOOSE k \in 1..Len(p.requiredElemCounts) :
                    /\ run.counts[p.requiredElemCounts[k][1]] > 0
                    /\ \A j \in 1..(k - 1) :
                         run.counts[p.requiredElemCounts[j][1]] <= 0
         IN Fail(run, MapErr("MissingChildren", <<p.requiredElemCounts[i][1]>>,
                             run.counts[p.requiredElemCounts[i][1]]))
  ELSE IF p.textMapping # NoTextMapping /\ ~run.seenText
    THEN Fail(run, MapErr("MissingText", <<>>, 0))
  ELSE run

\* new Counter(requiredElemCounts)
NewCounter(requiredElemCounts) ==
  [n \in {requiredElemCounts[i][1] : i \in 1..Len(requiredElemCounts)} |->
     requiredElemCounts[
       CHOOSE i \in 1..Len(requiredElemCounts) : requiredElemCounts[i][1] = n][2]]

\* What the closure gives: the record returned, or the error thrown.
Mapped(v, e) == [val |-> v, err |-> e]

\* The closure build() returns, called on elem with the default path.
project(p, elem) ==
  IF p.expectedName # UndefinedStr /\ elem.name.name # p.expectedName
    THEN Mapped(<<>>, MapErr("UnexpectedElementName", <<p.expectedName>>, 0))
  ELSE LET run ==
             missingPass(p,
               childrenPass(p, elem.children,
                 attrsPass(p, elem.attrs,
                   Run([n \in p.repeatedElemNames |-> <<>>],
                       p.requiredAttrNames, FALSE,
                       NewCounter(p.requiredElemCounts), NoMapErr))))
       IN IF run.err # NoMapErr THEN Mapped(<<>>, run.err)
          ELSE Mapped(run.res, NoMapErr)

(***************************************************************************)
(* The Element tree as a heap: Elements are 1..NumElems, each with its      *)
(* readonly name and attrs, its children array and its parent field.        *)
(***************************************************************************)
VARIABLES
  shape,     \* shape[e]: the readonly name and attrs of Element e
  children,  \* children[e]: the children array of Element e
  parent,    \* parent[e]: the parent field of Element e, or Undefined
  made,      \* the Elements constructed so far
  last,      \* the last call on the tree: its operation, arguments and outcome
  found,     \* the last query: its operation, Element, XmlQuery and outcome
  input,     \* what the parser run was given: a tree to serialise or a document
  src,       \* the XML text: the string toString returned, parseXml's argument
  out,       \* what parseXml gave: the root returned or the error thrown
  pc,        \* the next call of the parser run: "toString", "parseXml", "done"
  expectedName,  \* the builder's expectedName, or undefined
  attrMappings,  \* the builder's attrMappings
  elemMappings,  \* the builder's elemMappings
  textMapping,   \* the builder's textMapping, or undefined
  projection,    \* what the closure returned by build() holds
  given,         \* the Element the closure was called on
  mapped         \* what the closure gave: the record returned or the error

\* The variables of the tree model, those of a parser run and those of a
\* mapper.
treeVars == <<shape, made, children, parent, last, found>>
parseVars == <<input, src, out, pc>>
mapVars ==
  <<expectedName, attrMappings, elemMappings, textMapping, projection, given,
    mapped>>

Elems == 1..NumElems

\* A child that is an XmlElement, and a child that is an XmlText (a string).
ElemNode(e) == [kind |-> "elem", id |-> e, text |-> <<>>]
TextNode(t) == [kind |-> "text", id |-> 0, text |-> t]

\* The names and attribute lists Elements are constructed with.
ID == Str(<<"I", "D">>)
ShapeSeq ==
  LET a == Str(<<"a">>)
      b == Str(<<"b">>)
      one == Str(<<"1">>)
      two == Str(<<"2">>)
  IN << [name |-> XmlName(<<>>, a), attrs |-> <<>>],
        [name |-> XmlName(<<>>, b), attrs |-> << <<XmlName(<<>>, ID), one>> >>],
        [name |-> XmlName(b, a),    attrs |-> << <<XmlName(a, ID), two>> >>],
        [name |-> XmlName(<<>>, b),
         attrs |-> << <<XmlName(a, ID), two>>, <<XmlName(<<>>, ID), one>> >>] >>

\* The k-th assignment of names and attributes to the Elements 1..n.
ShapesOf(n, k) == [e \in 1..n |-> ShapeSeq[((e + k) % Len(ShapeSeq)) + 1]]

\* The text children the model adds.
Texts == {Str(<<"t">>)}

\* Array.prototype.splice(pos, 0, x) and splice(pos, 1), pos counted from 0.
SpliceIn(s, pos, x) == SubSeq(s, 1, pos) \o <<x>> \o SubSeq(s, pos + 1, Len(s))
SpliceOut(s, pos) == SubSeq(s, 1, pos) \o SubSeq(s, pos + 2, Len(s))

\* The outcome of a mutation: the heap after it, the error thrown (or "none")
\* and the value returned.
Outcome(ch, par, err, val) ==
  [children |-> ch, parent |-> par, err |-> err, val |-> val]

\* XmlElement.addChild without the test of child.parent.
addChild_NoParentCheck(ch, par, this, child, pos) ==
  IF pos < 0 \/ pos > Len(ch[this])
    THEN Outcome(ch, par, "IndexOutOfRange", Undefined)
    ELSE Outcome([ch EXCEPT ![this] = SpliceIn(@, pos, child)],
                 IF child.kind # "text"
                   THEN [par EXCEPT ![child.id] = this] ELSE par,
                 "none", Undefined)

\* XmlElement.addChild that sets child.parent before the position is checked.
addChild_ParentSetFirst(ch, par, this, child, pos) ==
  IF child.kind # "text" /\ par[child.id] # Undefined
    THEN Outcome(ch, par, "AlreadyHasParent", Undefined)
  ELSE IF pos < 0 \/ pos > Len(ch[this])
    THEN Outcome(ch,
                 IF child.kind # "text"
                   THEN [par EXCEPT ![child.id] = this] ELSE par,
                 "IndexOutOfRange", Undefined)
    ELSE Outcome([ch EXCEPT ![this] = SpliceIn(@, pos, child)],
                 IF child.kind # "text"
                   THEN [par EXCEPT ![child.id] = this] ELSE par,
                 "none", Undefined)

\* XmlElement.addChild(child, pos): RangeError is "IndexOutOfRange", the
\* ReferenceError of a child that has a parent is "AlreadyHasParent".
addChild(ch, par, this, child, pos) ==
  IF pos < 0 \/ pos > Len(ch[this])
    THEN Outcome(ch, par, "IndexOutOfRange", Undefined)
  ELSE IF child.kind # "text" /\ par[child.id] # Undefined
    THEN Outcome(ch, par, "AlreadyHasParent", Undefined)
    ELSE Outcome([ch EXCEPT ![this] = SpliceIn(@, pos, child)],
                 IF child.kind # "text"
                   THEN [par EXCEPT ![child.id] = this] ELSE par,
                 "none", Undefined)

\* children.findIndex((c) => c === child), counted from 0, -1 when absent.
FindIndex(s, child) ==
  LET hits == {i \in 1..Len(s) : s[i] = ElemNode(child)}
  IN IF hits = {} THEN -1
     ELSE (CHOOSE i \in hits : \A j \in hits : i <= j) - 1

\* XmlElement.deleteChild that leaves child.parent as it was.
deleteChild_KeepsParent(ch, par, this, child) ==
  LET pos == FindIndex(ch[this], child)
  IN IF pos > -1
       THEN Outcome([ch EXCEPT ![this] = SpliceOut(@, pos)], par, "none", pos)
       ELSE Outcome(ch, par, "none", pos)

\* XmlElement.deleteChild(child): returns the position, -1 when not a child.
deleteChild(ch, par, this, child) ==
  LET pos == FindIndex(ch[this], child)
  IN IF pos > -1
       THEN Outcome([ch EXCEPT ![this] = SpliceOut(@, pos)],
                    [par EXCEPT ![child] = Undefined], "none", pos)
       ELSE Outcome(ch, par, "none", pos)

\* XmlElement.detach(): returns [parent, position]; the model keeps the position.
detach(ch, par, this) ==
  LET p == par[this]
  IN IF p = Undefined
       THEN Outcome(ch, par, "NoParent", Undefined)
       ELSE deleteChild(ch, par, p, this)

\* What `last` holds of a call.
Call(op, this, arg, res) ==
  [op |-> op, this |-> this, arg |-> arg, err |-> res.err]

NoCall == [op |-> "new", this |-> 0, arg |-> TextNode(<<>>), err |-> "none"]

\* this.addChild(child, pos) for an Element or a text child; pos ranges over
\* the positions around the array, the default (the length) among them.
AddChild(this, child, pos) ==
  /\ child.kind = "text" => Len(children[this]) < MaxChildren
  /\ LET res == addChild(children, parent, this, child, pos)
     IN /\ children' = res.children
        /\ parent' = res.parent
        /\ last' = Call("addChild", this, child, res)
  /\ UNCHANGED <<shape, made, found, parseVars, mapVars>>

\* this.detach()
Detach(this) ==
  /\ LET res == detach(children, parent, this)
     IN /\ children' = res.children
        /\ parent' = res.parent
        /\ last' = Call("detach", this, ElemNode(this), res)
  /\ UNCHANGED <<shape, made, found, parseVars, mapVars>>

\* this.deleteChild(child)
DeleteChild(this, child) ==
  /\ LET res == deleteChild(children, parent, this, child)
     IN /\ children' = res.children
        /\ parent' = res.parent
        /\ last' = Call("deleteChild", this, ElemNode(child), res)
  /\ UNCHANGED <<shape, made, found, parseVars, mapVars>>

\* What `found` holds before any query.
NoQuery ==
  [op |-> "none", this |-> 0, q |-> [id |-> UndefinedStr, name |-> UndefinedStr],
   err |-> "none", val |-> <<>>]

\* What `input` holds when there is none, and a parser that never runs.
NoInput ==
  [kind |-> "none", tree |-> NoElem, tokens |-> <<>>, place |-> "",
   radix |-> <<>>, digits |-> <<>>, cp |-> 0, name |-> <<>>]

ParseIdle ==
  /\ input = NoInput
  /\ src = <<>>
  /\ out = Parsed(NoElem, NoErr)
  /\ pc = "idle"

\* new XmlElementMapperBuilder(), not built and not called.
NewBuilder ==
  /\ expectedName = UndefinedStr
  /\ attrMappings = <<>>
  /\ elemMappings = <<>>
  /\ textMapping = NoTextMapping
  /\ projection = NotBuilt
  /\ given = NoElem
  /\ mapped = Mapped(<<>>, NoMapErr)

vars ==
  <<shape, made, children, parent, last, found, input, src, out, pc,
    expectedName, attrMappings, elemMappings, textMapping, projection, given,
    mapped>>

(***************************************************************************)
(* Spec: Elements constructed with no parent and no children, then any      *)
(* sequence of addChild, detach and deleteChild calls on them.              *)
(***************************************************************************)
Init ==
  /\ shape = ShapesOf(NumElems, 0)
  /\ made = Elems
  /\ children = [e \in Elems |-> <<>>]
  /\ parent = [e \in Elems |-> Undefined]
  /\ last = NoCall
  /\ found = NoQuery
  /\ ParseIdle
  /\ NewBuilder

Next ==
  \/ \E this \in Elems, c \in Elems :
       \E pos \in -1..(Len(children[this]) + 1) :
         AddChild(this, ElemNode(c), pos)
  \/ \E this \in Elems, t \in Texts :
       \E pos \in -1..(Len(children[this]) + 1) :
         AddChild(this, TextNode(t), pos)
  \/ \E this \in Elems : Detach(this)
  \/ \E this \in Elems, c \in Elems : DeleteChild(this, c)

Spec == Init /\ [][Next]_vars

(***************************************************************************)
(* Construction with XmlElement.of and the query engine.                    *)
(***************************************************************************)
\* The XmlQuery values the model asks with: id and name set or not.
Queries ==
  {[id |-> i, name |-> n] :
     i \in {UndefinedStr, Str(<<"1">>)},
     n \in {UndefinedStr, Str(<<"a">>)}}

\* attrs.find(([name]) => name.name === local): the index of the first
\* attribute with that local name, 0 when there is none.
FindAttr(attrs, local) ==
  LET hits == {i \in 1..Len(attrs) : attrs[i][1].name = local}
  IN IF hits = {} THEN 0 ELSE CHOOSE i \in hits : \A j \in hits : i <= j

\* XmlElement.matches that wants id and name to match when both are set.
matches_And(sh, this, q) ==
  LET i == FindAttr(sh[this].attrs, ID)
      idOk == q.id # UndefinedStr /\ i # 0 /\ sh[this].attrs[i][2] = q.id
      nameOk == q.name # UndefinedStr /\ sh[this].name.name = q.name
  IN IF q.id # UndefinedStr /\ q.name # UndefinedStr
       THEN idOk /\ nameOk ELSE idOk \/ nameOk

\* XmlElement.matches(q) for an XmlQuery q.
matches(sh, this, q) ==
  LET i == FindAttr(sh[this].attrs, ID)
  IN IF q.id # UndefinedStr /\ i # 0 /\ sh[this].attrs[i][2] = q.id
       THEN TRUE
     ELSE IF q.name # UndefinedStr /\ sh[this].name.name = q.name
       THEN TRUE
       ELSE FALSE

\* XmlElement.findChildren(q): what the generator yields, in order.
RECURSIVE childrenFrom(_, _, _)
childrenFrom(sh, cs, q) ==
  IF cs = <<>> THEN <<>>
  ELSE LET c == Head(cs)
       IN (IF c.kind = "elem" /\ matches(sh, c.id, q) THEN <<c.id>> ELSE <<>>)
            \o childrenFrom(sh, Tail(cs), q)

findChildren(sh, ch, this, q) == childrenFrom(sh, ch[this], q)

\* XmlElement.findDescendants that yields the children's descendants before
\* the children.
RECURSIVE descendantsFrom_PostOrder(_, _, _, _)
descendantsFrom_PostOrder(sh, ch, cs, q) ==
  IF cs = <<>> THEN <<>>
  ELSE LET c == Head(cs)
       IN (IF c.kind # "elem" THEN <<>>
           ELSE descendantsFrom_PostOrder(sh, ch, ch[c.id], q)
                  \o (IF matches(sh, c.id, q) THEN <<c.id>> ELSE <<>>))
            \o descendantsFrom_PostOrder(sh, ch, Tail(cs), q)

\* XmlElement.findDescendants(q): what the generator yields, in order: for
\* each child that is an Element, the child when it matches, then the
\* child's own findDescendants.
RECURSIVE descendantsFrom(_, _, _, _)
descendantsFrom(sh, ch, cs, q) ==
  IF cs = <<>> THEN <<>>
  ELSE LET c == Head(cs)
       IN (IF c.kind # "elem" THEN <<>>
           ELSE (IF matches(sh, c.id, q) THEN <<c.id>> ELSE <<>>)
                  \o descendantsFrom(sh, ch, ch[c.id], q))
            \o descendantsFrom(sh, ch, Tail(cs), q)

findDescendants(sh, ch, this, q) == descendantsFrom(sh, ch, ch[this], q)

\* The outcome of a query: the error thrown (or "none") and the value.
Answer(err, val) == [err |-> err, val |-> val]

\* atMostOne that returns the first of several matches.
atMostOne_First(yielded) ==
  Answer("none", IF Len(yielded) >= 1 THEN yielded[1] ELSE Undefined)

\* atMostOne(iterator): the first value the iterator yields (undefined when
\* it yields none); throws when a second next() is not done.
atMostOne(yielded) ==
  LET one == IF Len(yielded) >= 1 THEN yielded[1] ELSE Undefined
  IN IF Len(yielded) >= 2
       THEN Answer("MultipleMatches", Undefined)
       ELSE Answer("none", one)

\* assertMatched(query, result), given the outcome of the atMostOne before it.
assertMatched(res) ==
  IF res.err # "none" THEN res
  ELSE IF res.val = Undefined THEN Answer("NoMatch", Undefined)
  ELSE res

findAtMostOneChild(sh, ch, this, q) == atMostOne(findChildren(sh, ch, this, q))

findAtMostOneChildOrThrow(sh, ch, this, q) ==
  assertMatched(findAtMostOneChild(sh, ch, this, q))

findAtMostOneDescendant(sh, ch, this, q) ==
  atMostOne(findDescendants(sh, ch, this, q))

findAtMostOneDescendantOrThrow(sh, ch, this, q) ==
  assertMatched(findAtMostOneDescendant(sh, ch, this, q))

\* XmlElement.of: the loop `for (const c of children) elem.addChild(c)`,
\* which ends at the first addChild that throws.
RECURSIVE ofLoop(_, _, _, _)
ofLoop(ch, par, elem, kids) ==
  IF kids = <<>> THEN Outcome(ch, par, "none", elem)
  ELSE LET res == addChild(ch, par, elem, Head(kids), Len(ch[elem]))
       IN IF res.err # "none" THEN res
          ELSE ofLoop(res.children, res.parent, elem, Tail(kids))

\* The sequences of at most n members of S.
SeqsUpTo(S, n) == UNION {[1..k -> S] : k \in 0..n}

\* XmlElement.of(qName, attrs, kids): a new Element (the next one not yet
\* constructed) is given kids, Elements constructed before and texts.
Of(kids) ==
  /\ found = NoQuery
  /\ made # DOMAIN children
  /\ LET elem == CHOOSE e \in DOMAIN children \ made :
                   \A o \in DOMAIN children \ made : e <= o
         res == ofLoop(children, parent, elem, kids)
     IN /\ made' = made \cup {elem}
        /\ children' = res.children
        /\ parent' = res.parent
        /\ last' = Call("of", elem, TextNode(<<>>), res)
  /\ UNCHANGED <<shape, found, parseVars, mapVars>>

\* A query and what it gave: a generator's yields as they are, the result of
\* an atMostOne call as a sequence of one value.  A query changes nothing of
\* the tree, so a behaviour asks one and ends.
Query(op, this, q, err, val) ==
  /\ found = NoQuery
  /\ found' = [op |-> op, this |-> this, q |-> q, err |-> err, val |-> val]
  /\ UNCHANGED <<shape, made, children, parent, last, parseVars, mapVars>>

FindChildren(this, q) ==
  Query("findChildren", this, q, "none", findChildren(shape, children, this, q))

FindDescendants(this, q) ==
  Query("findDescendants", this, q, "none",
        findDescendants(shape, children, this, q))

FindAtMostOneChild(this, q) ==
  LET res == findAtMostOneChild(shape, children, this, q)
  IN Query("findAtMostOneChild", this, q, res.err, <<res.val>>)

FindAtMostOneChildOrThrow(this, q) ==
  LET res == findAtMostOneChildOrThrow(shape, children, this, q)
  IN Query("findAtMostOneChildOrThrow", this, q, res.err, <<res.val>>)

FindAtMostOneDescendant(this, q) ==
  LET res == findAtMostOneDescendant(shape, children, this, q)
  IN Query("findAtMostOneDescendant", this, q, res.err, <<res.val>>)

FindAtMostOneDescendantOrThrow(this, q) ==
  LET res == findAtMostOneDescendantOrThrow(shape, children, this, q)
  IN Query("findAtMostOneDescendantOrThrow", this, q, res.err, <<res.val>>)

(***************************************************************************)
(* SpecQuery: trees built bottom-up with XmlElement.of, and the queries on  *)
(* the Elements constructed.  Every Element is new when its children are    *)
(* added, so no Element is its own descendant and the generators end.       *)
(***************************************************************************)
BuiltElems == 1..NumBuilt

\* The assignments of names and attributes the query model starts from.
ShapeShifts == {0, 3}

InitQuery ==
  /\ \E k \in ShapeShifts : shape = ShapesOf(NumBuilt, k)
  /\ made = {}
  /\ children = [e \in BuiltElems |-> <<>>]
  /\ parent = [e \in BuiltElems |-> Undefined]
  /\ last = NoCall
  /\ found = NoQuery
  /\ ParseIdle
  /\ NewBuilder

NextQuery ==
  \/ \E kids \in SeqsUpTo({ElemNode(c) : c \in made}
                            \cup {TextNode(t) : t \in Texts}, MaxKids) : Of(kids)
  \/ \E this \in made, q \in Queries : FindChildren(this, q)
  \/ \E this \in made, q \in Queries : FindDescendants(this, q)
  \/ \E this \in made, q \in Queries : FindAtMostOneChild(this, q)
  \/ \E this \in made, q \in Queries : FindAtMostOneChildOrThrow(this, q)
  \/ \E this \in made, q \in Queries : FindAtMostOneDescendant(this, q)
  \/ \E this \in made, q \in Queries : FindAtMostOneDescendantOrThrow(this, q)

SpecQuery == InitQuery /\ [][NextQuery]_vars

(***************************************************************************)
(* filterOut and SpecFilter: trees built with XmlElement.of, then one       *)
(* filterOut call on an Element constructed, with an XmlQuery or with an    *)
(* Element constructed.  The Elements filterOut constructs are the next     *)
(* ones after those of the heap.                                           *)
(***************************************************************************)
\* An unselector that is an XmlElement; one that is an XmlQuery is a member
\* of Queries.
ElemUnselector(e) == [elem |-> e]

\* XmlElement.matches(q) for an XmlQuery or an XmlElement q.
matchesAny(sh, this, q) ==
  IF q \in Queries THEN matches(sh, this, q) ELSE q.elem = this

\* The heap while filterOut runs.
Heap(sh, ch, par) == [shape |-> sh, children |-> ch, parent |-> par]

\* new XmlElement(undefined, this.name, this.attrs.slice()): the next Element
\* of the heap, with the name and a copy of the attrs of Element this.
newFiltered(h, this) ==
  Heap(Append(h.shape, h.shape[this]), Append(h.children, <<>>),
       Append(h.parent, Undefined))

\* filtered.addChild(child)
filteredAddChild(h, filtered, child) ==
  Heap(h.shape,
       addChild(h.children, h.parent, filtered, child,
                Len(h.children[filtered])).children,
       addChild(h.children, h.parent, filtered, child,
                Len(h.children[filtered])).parent)

\* The loop of filterOut that also copies the children that match.
RECURSIVE filterLoop_KeepsMatches(_, _, _, _)
filterLoop_KeepsMatches(h, filtered, kids, unselector) ==
  IF kids = <<>> THEN h
  ELSE filterLoop_KeepsMatches(
         IF Head(kids).kind = "text"
           THEN filteredAddChild(h, filtered, Head(kids))
         ELSE filteredAddChild(
                filterLoop_KeepsMatches(newFiltered(h, Head(kids).id),
                                        Len(h.children) + 1,
                                        h.children[Head(kids).id], unselector),
                filtered, ElemNode(Len(h.children) + 1)),
         filtered, Tail(kids), unselector)

\* The loop of filterOut over this.children, kids being those left; a child
\* that is kept is copied by its own filterOut, whose new Element is the next
\* one of the heap.
RECURSIVE filterLoop(_, _, _, _)
filterLoop(h, filtered, kids, unselector) ==
  IF kids = <<>> THEN h
  ELSE filterLoop(
         IF Head(kids).kind = "text"
           THEN filteredAddChild(h, filtered, Head(kids))
         ELSE IF matchesAny(h.shape, Head(kids).id, unselector) THEN h
         ELSE filteredAddChild(
                filterLoop(newFiltered(h, Head(kids).id), Len(h.children) + 1,
                           h.children[Head(kids).id], unselector),
                filtered, ElemNode(Len(h.children) + 1)),
         filtered, Tail(kids), unselector)

\* this.filterOut(unselector): the heap after it; the Element returned is the
\* first one constructed.
filterOut(h, this, unselector) ==
  filterLoop(newFiltered(h, this), Len(h.children) + 1, h.children[this],
             unselector)

FilterOut(this, unselector) ==
  /\ found = NoQuery
  /\ shape' = filterOut(Heap(shape, children, parent), this, unselector).shape
  /\ children' =
       filterOut(Heap(shape, children, parent), this, unselector).children
  /\ parent' = filterOut(Heap(shape, children, parent), this, unselector).parent
  /\ found' = [op |-> "filterOut", this |-> this, q |-> unselector,
               err |-> "none", val |-> <<Len(children) + 1>>]
  /\ UNCHANGED <<made, last, parseVars, mapVars>>

NextFilter ==
  \/ \E kids \in SeqsUpTo({ElemNode(c) : c \in made}
                            \cup {TextNode(t) : t \in Texts}, MaxKids) : Of(kids)
  \/ \E this \in made, q \in Queries : FilterOut(this, q)
  \/ \E this \in made, e \in made : FilterOut(this, ElemUnselector(e))

SpecFilter == InitQuery /\ [][NextFilter]_vars

(***************************************************************************)
(* SpecParse: a parser run.  It is given either an Element tree, which is   *)
(* serialised with toString and the text parsed with parseXml, or a         *)
(* document, which is parsed: a sequence of tags and texts, or an Element   *)
(* holding one numeric or one named entity, in its text or in an attribute. *)
(***************************************************************************)
\* Longest sequence of tags and texts of a document.
MaxTokens == 4
\* Most digits of a numeric entity, leading zeros included.
MaxDigits == 8
\* Longest text child of a serialised tree.
MaxText == 2

\* ss.join("")
RECURSIVE Concat(_)
Concat(ss) == IF Len(ss) = 0 THEN <<>> ELSE Head(ss) \o Concat(Tail(ss))

\* The tags and texts documents are made of: <a> </a> <b:a> </b:a> <a/>,
\* the text t and a space.
TagTokens ==
  LET a == XmlName(<<>>, Str(<<"a">>))
      ba == XmlName(Str(<<"b">>), Str(<<"a">>))
      open(n) == [kind |-> "open", name |-> n,
                  text |-> Str(<<"<">>) \o NameToString(n) \o Str(<<">">>)]
      close(n) == [kind |-> "close", name |-> n,
                   text |-> Str(<<"<", "/">>) \o NameToString(n) \o Str(<<">">>)]
  IN << open(a), close(a), open(ba), close(ba),
        [kind |-> "empty", name |-> a, text |-> Str(<<"<", "a", "/", ">">>)],
        [kind |-> "text", name |-> a, text |-> Str(<<"t">>)],
        [kind |-> "text", name |-> a, text |-> Str(<<" ">>)] >>

TagInputs ==
  {[NoInput EXCEPT !.kind = "tags", !.tokens = toks] :
     toks \in SeqsUpTo(1..Len(TagTokens), MaxTokens)}

\* The code points numeric entities are written for: the ends of the ranges
\* of code points, of surrogates and of what the digits can say.
CodePoints ==
  {0, 9, 65, 55295, 55296, 57343, 57344, 65535, 65536, 1114111, 1114112,
   9999999, 16777215}

\* The numeral of n: decimal after "&#", lowercase hexadecimal after "&#x",
\* uppercase hexadecimal after "&#X".
DigitChar(d, radix) ==
  IF d < 10 THEN Ord["0"] + d
  ELSE IF radix = Str(<<"x">>) THEN Ord["a"] + d - 10
  ELSE Ord["A"] + d - 10

RECURSIVE DigitsOf(_, _)
DigitsOf(n, radix) ==
  LET base == IF radix = <<>> THEN 10 ELSE 16
  IN IF n < base THEN <<DigitChar(n, radix)>>
     ELSE Append(DigitsOf(n \div base, radix), DigitChar(n % base, radix))

\* A numeral with leading zeros up to w digits.
Pad(ds, w) == [i \in 1..(w - Len(ds)) |-> Ord["0"]] \o ds

Places == {"text", "attr"}
Radixes == {<<>>, Str(<<"x">>), Str(<<"X">>)}

NumericInputs ==
  {[NoInput EXCEPT !.kind = "numeric", !.place = n[1], !.radix = n[2],
                   !.cp = n[3], !.digits = Pad(DigitsOf(n[3], n[2]), n[4])] :
     n \in {m \in Places \X Radixes \X CodePoints \X (1..MaxDigits) :
              Len(DigitsOf(m[3], m[2])) <= m[4]}}
    \cup {[NoInput EXCEPT !.kind = "numeric", !.place = p, !.radix = x] :
            p \in Places, x \in Radixes}

\* The names named entities are written with: those of the table, and
\* lowercase names that are not in it, the empty name among them.
NamesTried ==
  DOMAIN ENTITY_REFS
    \cup {<<>>, Str(<<"a">>), Str(<<"a", "m">>), Str(<<"a", "m", "q">>),
          Str(<<"a", "m", "p", "s">>), Str(<<"l">>), Str(<<"l", "t", "t">>),
          Str(<<"g">>), Str(<<"q", "u", "o">>), Str(<<"x">>)}

NamedInputs ==
  {[NoInput EXCEPT !.kind = "named", !.place = p, !.name = n] :
     p \in Places, n \in NamesTried}

\* The characters of the texts and attribute values of serialised trees.
Alphabet == {Ord["&"], Ord["<"], Ord[">"], Ord["\""], Ord["'"], Ord["t"]}

\* The trees serialised: an Element a with no attribute or the attribute b:c,
\* and with no child, a text, an Element b (empty or holding a text), or a
\* text and an Element b in either order.  No text child is empty and no two
\* text children are adjacent.
Trees ==
  LET a == XmlName(<<>>, Str(<<"a">>))
      b == XmlName(<<>>, Str(<<"b">>))
      bc == XmlName(Str(<<"b">>), Str(<<"c">>))
      texts(n) == {XmlText(t) : t \in SeqsUpTo(Alphabet, n) \ {<<>>}}
      leaves == {XmlElement(b, <<>>, <<>>)}
                  \cup {XmlElement(b, <<>>, <<t>>) : t \in texts(1)}
      attrLists == {<<>>} \cup {<< <<bc, v>> >> : v \in SeqsUpTo(Alphabet, 1)}
      childLists == {<<>>}
                      \cup {<<t>> : t \in texts(MaxText)}
                      \cup {<<e>> : e \in leaves}
                      \cup {<<t, e>> : t \in texts(MaxText), e \in leaves}
                      \cup {<<e, t>> : t \in texts(MaxText), e \in leaves}
  IN {XmlElement(a, at, cs) : at \in attrLists, cs \in childLists}

TreeInputs == {[NoInput EXCEPT !.kind = "tree", !.tree = t] : t \in Trees}

\* The document of an input that is not a tree: the tags and texts joined,
\* or <a>&...;</a>, or <a b="&...;"/>.
Document(i) ==
  LET body == IF i.kind = "numeric"
                THEN Str(<<"#">>) \o i.radix \o i.digits ELSE i.name
      entity == Str(<<"&">>) \o body \o Str(<<";">>)
  IN IF i.kind = "tags"
       THEN Concat([k \in 1..Len(i.tokens) |-> TagTokens[i.tokens[k]].text])
     ELSE IF i.place = "text"
       THEN Str(<<"<", "a", ">">>) \o entity \o Str(<<"<", "/", "a", ">">>)
       ELSE Str(<<"<", "a", " ", "b", "=", "\"">>) \o entity
              \o Str(<<"\"", "/", ">">>)

\* input.tree.toString()
Serialise ==
  /\ pc = "toString"
  /\ src' = toString(input.tree)
  /\ pc' = "parseXml"
  /\ UNCHANGED <<input, out, treeVars, mapVars>>

\* parseXml(src)
ParseXml ==
  /\ pc = "parseXml"
  /\ out' = parseXml(src)
  /\ pc' = "done"
  /\ UNCHANGED <<input, src, treeVars, mapVars>>

\* No tree model beside a parser run.
TreeIdle ==
  /\ shape = <<>>
  /\ made = {}
  /\ children = <<>>
  /\ parent = <<>>
  /\ last = NoCall
  /\ found = NoQuery

InitParse ==
  /\ TreeIdle
  /\ NewBuilder
  /\ out = Parsed(NoElem, NoErr)
  /\ \E i \in TreeInputs \cup TagInputs \cup NumericInputs \cup NamedInputs :
       /\ input = i
       /\ IF i.kind = "tree"
            THEN src = <<>> /\ pc = "toString"
            ELSE src = Document(i) /\ pc = "parseXml"

NextParse ==
  \/ Serialise
  \/ ParseXml

SpecParse == InitParse /\ [][NextParse]_vars

(***************************************************************************)
(* SpecMap: a new XmlElementMapperBuilder, any calls of its methods, then   *)
(* build() and the closure it returns called on one Element.                *)
(***************************************************************************)
\* The rules and the expected name a builder holds before build(), and the
\* children of the Element the closure is called on.
MaxRules == 3
MaxMapKids == 2

\* The names the rules are declared for.
ElemNames == {Str(<<"a">>), Str(<<"b">>)}
AttrNames == {Str(<<"i", "d">>), Str(<<"c">>)}
TextNames == {Str(<<"t">>)}
ExpectedNames == {Str(<<"r">>), Str(<<"a">>)}

Declared ==
  (IF expectedName = UndefinedStr THEN 0 ELSE 1) + Len(attrMappings)
    + Len(elemMappings) + (IF textMapping = NoTextMapping THEN 0 ELSE 1)

\* A method may be called: build() was not, and there is room for a rule.
Building == projection = NotBuilt /\ Declared < MaxRules

\* Rules are declared once per name here.
NoAttrRule(name) == DictGet(attrMappings, name) = 0
NoElemRule(name) == DictGet(elemMappings, name) = 0

\* expectName(name); a second call throws at assertState.
ExpectName(name) ==
  /\ Building
  /\ expectedName = UndefinedStr
  /\ expectedName' = name
  /\ UNCHANGED <<attrMappings, elemMappings, textMapping, projection, given,
                 mapped, treeVars, parseVars>>

\* this.attrMappings.push({name, ignore, optional, validator})
PushAttr(n, ign, opt, v) ==
  /\ Building
  /\ NoAttrRule(n)
  /\ attrMappings' = Append(attrMappings, AttrMapping(n, ign, opt, v))
  /\ UNCHANGED <<expectedName, elemMappings, textMapping, projection, given,
                 mapped, treeVars, parseVars>>

\* ignoreAttr(name, validator)
IgnoreAttr(name, validator) ==
  PushAttr(name, TRUE, FALSE, validator)

\* maybeAttr(name, validator)
MaybeAttr(name, validator) == PushAttr(name, FALSE, TRUE, validator)

\* attr(name, validator)
Attr(name, validator) == PushAttr(name, FALSE, FALSE, validator)

\* this.elemMappings.push({name, mode, ignore, min, mapper})
PushElem(n, md, ign, mn, mp) ==
  /\ Building
  /\ NoElemRule(n)
  /\ elemMappings' = Append(elemMappings, ElemMapping(n, md, ign, mn, mp))
  /\ UNCHANGED <<expectedName, attrMappings, textMapping, projection, given,
                 mapped, treeVars, parseVars>>

\* ignore(name)
Ignore(name) == PushElem(name, "optional", TRUE, Undefined, "void")

\* one(name, mapper)
One(name, mapper) ==
  PushElem(name, "required", FALSE, Undefined, mapper)

\* maybeOne(name, mapper)
MaybeOne(name, mapper) ==
  PushElem(name, "optional", FALSE, Undefined, mapper)

\* oneOrMore(name, mapper)
OneOrMore(name, mapper) ==
  PushElem(name, "repeated", FALSE, 1, mapper)

\* zeroOrMore(name, mapper)
ZeroOrMore(name, mapper) ==
  PushElem(name, "repeated", FALSE, 0, mapper)

\* this.textMapping = {name, ignore, validator}
SetText(n, ign, v) ==
  /\ Building
  /\ textMapping' = TextMapping(n, ign, v)
  /\ UNCHANGED <<expectedName, attrMappings, elemMappings, projection, given,
                 mapped, treeVars, parseVars>>

\* text(name, validator)
Text(name, validator) == SetText(name, FALSE, validator)

\* ignoreText(name, validator)
IgnoreText(name, validator) == SetText(name, TRUE, validator)

\* build()
Build ==
  /\ projection = NotBuilt
  /\ projection' = build(expectedName, attrMappings, elemMappings, textMapping)
  /\ UNCHANGED <<expectedName, attrMappings, elemMappings, textMapping, given,
                 mapped, treeVars, parseVars>>

\* The closure build() returned, called on elem.
Map(elem) ==
  /\ projection # NotBuilt
  /\ given = NoElem
  /\ given' = elem
  /\ mapped' = project(projection, elem)
  /\ UNCHANGED <<expectedName, attrMappings, elemMappings, textMapping,
                 projection, treeVars, parseVars>>

\* The Elements the closure is called on: r with one of these attribute
\* lists and up to MaxMapKids of these children.
MapAttr(prefix, name, value) == <<XmlName(prefix, name), value>>

MapAttrs ==
  LET id == Str(<<"i", "d">>)
      b == Str(<<"b">>)
      c == Str(<<"c">>)
      xmlns == Str(<<"x", "m", "l", "n", "s">>)
      one == Str(<<"1">>)
      t == Str(<<"t">>)
  IN {<<>>,
      <<MapAttr(<<>>, id, one)>>,
      <<MapAttr(<<>>, id, t)>>,
      <<MapAttr(<<>>, id, t), MapAttr(<<>>, b, one)>>,
      <<MapAttr(<<>>, c, one), MapAttr(<<>>, id, one)>>,
      <<MapAttr(b, id, one)>>,
      <<MapAttr(<<>>, xmlns, one)>>,
      <<MapAttr(xmlns, b, one), MapAttr(<<>>, b, t)>>}

MapKids ==
  {XmlElement(XmlName(<<>>, Str(<<"a">>)),
              <<<<XmlName(<<>>, Str(<<"i", "d">>)), Str(<<"1">>)>>>>, <<>>),
   XmlElement(XmlName(<<>>, Str(<<"a">>)),
              <<<<XmlName(<<>>, Str(<<"i", "d">>)), Str(<<"2">>)>>>>, <<>>),
   XmlText(Str(<<"t">>)),
   XmlText(Str(<<" ">>))}

MapElems ==
  {XmlElement(XmlName(<<>>, Str(<<"r">>)), attrs, kids) :
     attrs \in MapAttrs, kids \in SeqsUpTo(MapKids, MaxMapKids)}

InitMap ==
  /\ TreeIdle
  /\ ParseIdle
  /\ NewBuilder

NextMap ==
  \/ \E name \in ExpectedNames : ExpectName(name)
  \/ \E name \in AttrNames : IgnoreAttr(name, "VInteger")
  \/ \E name \in AttrNames : MaybeAttr(name, "VInteger")
  \/ \E name \in AttrNames : Attr(name, "VInteger")
  \/ \E name \in ElemNames : Ignore(name)
  \/ \E name \in ElemNames : One(name, "given")
  \/ \E name \in ElemNames : MaybeOne(name, "given")
  \/ \E name \in ElemNames : OneOrMore(name, "given")
  \/ \E name \in ElemNames : ZeroOrMore(name, "given")
  \/ \E name \in TextNames : Text(name, "VString")
  \/ \E name \in TextNames : IgnoreText(name, "VString")
  \/ Build
  \/ \E elem \in MapElems : Map(elem)

SpecMap == InitMap /\ [][NextMap]_vars

(***************************************************************************)
(* Claims about the parser and toString, checked under SpecParse.           *)
(***************************************************************************)
\* C3: for every Element tree whose text children and attribute values are
\* drawn from an alphabet that includes & < > " ', parseXml(tree.toString())
\* is an equivalent tree: the same names, the same attribute name/value
\* pairs, and the same children in the same order and kind with the same
\* text.  (Stated for trees with no empty text child and no two adjacent
\* text children, which no parse can give back.)
C3_RoundTrip ==
  (input.kind = "tree" /\ pc = "done") =>
    out.err = NoErr /\ out.root = input.tree

\* How the tags of a document nest, read from left to right with the open
\* names stacked: "unexpected" at the first closing tag with nothing open,
\* "mismatched" at the first closing tag whose name is not that of the
\* innermost open tag, else "unclosed" when a tag is open at the end, else
\* "closed".
RECURSIVE NestingFrom(_, _)
NestingFrom(toks, open) ==
  IF Len(toks) = 0 THEN IF Len(open) = 0 THEN "closed" ELSE "unclosed"
  ELSE LET t == TagTokens[Head(toks)]
       IN IF t.kind = "open" THEN NestingFrom(Tail(toks), <<t.name>> \o open)
          ELSE IF t.kind # "close" THEN NestingFrom(Tail(toks), open)
          ELSE IF Len(open) = 0 THEN "unexpected"
          ELSE IF Head(open) # t.name THEN "mismatched"
          ELSE NestingFrom(Tail(toks), Tail(open))

\* C4: parseXml succeeds only if every opening tag that ends with ">" is
\* followed, after its content, by a closing tag of the same name; a
\* document that ends before that closing tag fails with a parse error, a
\* closing tag of another name fails with "Mismatched closing tag", and a
\* closing tag with no enclosing element fails with "Unexpected closing tag".
C4_ClosingTags ==
  (input.kind = "tags" /\ pc = "done") =>
    LET nesting == NestingFrom(input.tokens, <<>>)
    IN /\ out.err = NoErr => nesting = "closed"
       /\ nesting = "unclosed" => out.err.type = "XmlParseError"
       /\ nesting = "mismatched" =>
            /\ out.err.type = "XmlParseError"
            /\ out.err.description = "Mismatched closing tag"
       /\ nesting = "unexpected" =>
            /\ out.err.type = "XmlParseError"
            /\ out.err.description = "Unexpected closing tag"

\* The root of the document of an entity input when the entity decodes to
\* the string decoded.
RootWith(place, decoded) ==
  LET a == XmlName(<<>>, Str(<<"a">>))
      b == XmlName(<<>>, Str(<<"b">>))
  IN IF place = "text"
       THEN XmlElement(a, <<>>, <<XmlText(decoded)>>)
       ELSE XmlElement(a, << <<b, decoded>> >>, <<>>)

\* The UTF-16 text of a Unicode scalar value.
Utf16(cp) ==
  IF cp <= 65535 THEN <<cp>>
  ELSE LET v == cp - 65536
       IN <<55296 + (v \div 1024), 56320 + (v % 1024)>>

\* C5: a numeric entity of 1 to 7 decimal digits, or of 1 to 6 hexadecimal
\* digits after x or X, decodes to the text of its code point exactly when
\* the code point is a Unicode scalar value (0..0x10FFFF without the
\* surrogates 0xD800..0xDFFF); for every other code point and every other
\* number of digits parseXml fails with an XmlParseError.
C5_NumericEntities ==
  (input.kind = "numeric" /\ pc = "done") =>
    LET n == Len(input.digits)
        digitsOk == n >= 1 /\ n <= (IF input.radix = <<>> THEN 7 ELSE 6)
        scalar == input.cp <= 1114111 /\ input.cp \notin 55296..57343
    IN IF digitsOk /\ scalar
         THEN /\ out.err = NoErr
              /\ out.root = RootWith(input.place, Utf16(input.cp))
         ELSE out.err.type = "XmlParseError"

\* C6: a named entity decodes to the value of the table when its name is
\* amp, apos, gt, lt or quot; for every other name, the empty one included,
\* parseXml fails with an XmlParseError that carries a line and a column,
\* and with no other kind of failure.
C6_NamedEntities ==
  (input.kind = "named" /\ pc = "done") =>
    IF input.name \in DOMAIN ENTITY_REFS
      THEN /\ out.err = NoErr
           /\ out.root = RootWith(input.place, ENTITY_REFS[input.name])
      ELSE /\ out.err.type = "XmlParseError"
           /\ out.err.line >= 1

(***************************************************************************)
(* Claims about the mapper, checked under SpecMap.  What the projection     *)
(* should give is stated from the Element it was called on and the rules    *)
(* declared, not from the loops of build().                                 *)
(***************************************************************************)
\* The positions of the child Elements of e named n, and those of its text
\* children that are not whitespace only.
KidsNamed(e, n) ==
  {i \in 1..Len(e.children) :
     e.children[i].kind = "elem" /\ e.children[i].name.name = n}

NonBlankTexts(e) ==
  {i \in 1..Len(e.children) :
     e.children[i].kind = "text" /\ ~IsBlank(e.children[i].text)}

\* The cardinality of rule m is satisfied by the Element, or it has too few.
CardinalityMet(m) ==
  IF m.mode = "required" THEN Cardinality(KidsNamed(given, m.name)) = 1
  ELSE IF m.mode = "optional" THEN Cardinality(KidsNamed(given, m.name)) <= 1
  ELSE Cardinality(KidsNamed(given, m.name)) >= m.min

TooFew(m) ==
  Cardinality(KidsNamed(given, m.name))
    < (IF m.mode = "required" THEN 1 ELSE IF m.mode = "optional" THEN 0 ELSE m.min)

\* The mapped values of the children named as rule m, in document order.
RECURSIVE ValuesOf(_, _)
ValuesOf(kids, m) ==
  IF Len(kids) = 0 THEN <<>>
  ELSE (IF Head(kids).kind = "elem" /\ Head(kids).name.name = m.name
          THEN <<ApplyMapper(m.mapper, Head(kids))>> ELSE <<>>)
         \o ValuesOf(Tail(kids), m)

\* Nothing but the children (or the text) can make the projection fail: the
\* name is the expected one, no attribute is given or required, every child
\* Element has a rule.
NameFine == expectedName = UndefinedStr \/ given.name.name = expectedName
AttrsFine == given.attrs = <<>> /\ \A i \in 1..Len(attrMappings) : attrMappings[i].optional
KidsKnown ==
  \A i \in 1..Len(given.children) :
    given.children[i].kind = "elem" =>
      \E j \in 1..Len(elemMappings) :
        elemMappings[j].name = given.children[i].name.name
NoTextKids == \A i \in 1..Len(given.children) : given.children[i].kind = "elem"

\* C9: for every child rule declared with one, maybeOne, oneOrMore or
\* zeroOrMore, the projection accepts the Element only if the number of its
\* child Elements of that name satisfies the rule's cardinality (exactly one
\* for required, at most one for optional, at least the minimum for
\* repeated); too few give MissingChildren when nothing else is wrong; on
\* success a repeated rule's field is the sequence of the mapped values in
\* document order, empty when there are none.
C9_ChildCardinality ==
  given # NoElem =>
    \A i \in 1..Len(elemMappings) :
      /\ (mapped.err = NoMapErr /\ ~elemMappings[i].ignore)
           => CardinalityMet(elemMappings[i])
      /\ (TooFew(elemMappings[i]) /\ NameFine /\ AttrsFine /\ KidsKnown
            /\ NoTextKids)
           => mapped.err.type = "MissingChildren"
      /\ (mapped.err = NoMapErr /\ elemMappings[i].mode = "repeated"
            /\ ~elemMappings[i].ignore)
           => mapped.val[elemMappings[i].name]
                = ValuesOf(given.children, elemMappings[i])

\* C10: when nothing else is wrong, with a text rule the one text child that is
\* not whitespace only is the matched text wherever the whitespace-only text
\* children are, a second one gives UnexpectedText and none gives
\* MissingText; with no text rule any text child that is not whitespace only
\* gives UnexpectedText and whitespace-only text is accepted.
C10_TextChildren ==
  (/\ given # NoElem
   /\ NameFine /\ AttrsFine /\ KidsKnown
   /\ \A i \in 1..Len(elemMappings) : CardinalityMet(elemMappings[i]))
    => IF textMapping # NoTextMapping
         THEN /\ Cardinality(NonBlankTexts(given)) = 1 =>
                   /\ mapped.err = NoMapErr
                   /\ ~textMapping.ignore =>
                        \A i \in NonBlankTexts(given) :
                          mapped.val[textMapping.name] = given.children[i].text
              /\ Cardinality(NonBlankTexts(given)) >= 2 =>
                   mapped.err.type = "UnexpectedText"
              /\ Cardinality(NonBlankTexts(given)) = 0 =>
                   mapped.err.type = "MissingText"
         ELSE /\ Cardinality(NonBlankTexts(given)) >= 1 =>
                   mapped.err.type = "UnexpectedText"
              /\ Cardinality(NonBlankTexts(given)) = 0 =>
                   mapped.err = NoMapErr

\* The attributes of the Element that are not xmlns ones, those of them with
\* no rule for their local name, and those whose rule's validator rejects
\* their value.
IsXmlns(n) ==
  \/ n.prefix = Str(<<"x", "m", "l", "n", "s">>)
  \/ Len(n.prefix) = 0 /\ n.name = Str(<<"x", "m", "l", "n", "s">>)

PlainAttrs == {i \in 1..Len(given.attrs) : ~IsXmlns(given.attrs[i][1])}

RuleFor(i) ==
  {j \in 1..Len(attrMappings) : attrMappings[j].name = given.attrs[i][1].name}

Undeclared == {i \in PlainAttrs : RuleFor(i) = {}}

Rejected ==
  {i \in PlainAttrs :
     \E j \in RuleFor(i) :
       ~ValidatorAccepts(attrMappings[j].validator, given.attrs[i][2])}

\* The names declared with attr or ignoreAttr that no attribute has.
RequiredAbsent ==
  {attrMappings[j].name :
     j \in {k \in 1..Len(attrMappings) :
              /\ ~attrMappings[k].optional
              /\ \A i \in PlainAttrs :
                   given.attrs[i][1].name # attrMappings[k].name}}

\* The fields of the record that no child rule and no text rule can set.
AttrFields ==
  DOMAIN mapped.val
    \ ({elemMappings[j].name : j \in 1..Len(elemMappings)} \cup {textMapping.name})

\* C11 as stated: on an Element of the expected name the projection fails with
\* UnexpectedAttribute iff the Element has an attribute, not an xmlns one,
\* with no rule; otherwise it fails with MissingAttributes, listing the
\* missing names sorted, iff an attribute declared as required is absent.
C11_AsStated ==
  (given # NoElem /\ NameFine) =>
    /\ mapped.err.type = "UnexpectedAttribute" <=> Undeclared # {}
    /\ Undeclared = {} =>
         /\ mapped.err.type = "MissingAttributes" <=> RequiredAbsent # {}
         /\ mapped.err.type = "MissingAttributes" =>
              mapped.err.names = sortNames(RequiredAbsent)

\* C11: when the Element has the expected name, the projection fails with
\* UnexpectedAttribute iff the first attribute that has no rule (xmlns ones
\* apart) comes before every attribute its validator rejects, with that
\* validator's error iff a rejected attribute comes first, and with
\* MissingAttributes, listing the missing names sorted, iff there is neither
\* and a name declared with attr or ignoreAttr is absent; an error names no
\* xmlns attribute, and on success the record holds, of the attributes,
\* exactly those with a rule that is not ignoreAttr, with the value given.
C11_Attributes ==
  (given # NoElem /\ NameFine) =>
    /\ mapped.err.type = "UnexpectedAttribute"
         <=> \E i \in Undeclared : \A j \in Rejected : i < j
    /\ (\E i \in Rejected : \A j \in Undeclared : i < j)
         => mapped.err.type = "ValidationError"
    /\ mapped.err.type = "MissingAttributes"
         <=> (Undeclared = {} /\ Rejected = {} /\ RequiredAbsent # {})
    /\ mapped.err.type = "MissingAttributes"
         => mapped.err.names = sortNames(RequiredAbsent)
    /\ mapped.err.type = "UnexpectedAttribute"
         => \E i \in Undeclared :
              mapped.err.names = <<NameToString(given.attrs[i][1])>>
    /\ mapped.err = NoMapErr =>
         /\ \A n \in AttrFields :
              \E i \in PlainAttrs, j \in 1..Len(attrMappings) :
                /\ given.attrs[i][1].name = n
                /\ attrMappings[j].name = n
                /\ ~attrMappings[j].ignore
                /\ mapped.val[n] = given.attrs[i][2]
         /\ \A i \in PlainAttrs :
              \A j \in RuleFor(i) :
                ~attrMappings[j].ignore => given.attrs[i][1].name \in AttrFields

\* Two required attributes declared in the order id, c are both missing from an
\* Element with only an xmlns attribute.
C11_Witness ==
  /\ given # NoElem
  /\ Len(given.attrs) = 1
  /\ PlainAttrs = {}
  /\ Len(attrMappings) = 2
  /\ attrMappings[1].name = Str(<<"i", "d">>)
  /\ attrMappings[2].ignore
  /\ mapped.err.type = "MissingAttributes"
  /\ Len(mapped.err.names) = 2

(***************************************************************************)
(* Claims about the queries, checked under SpecQuery.  What a query should  *)
(* give is stated from the parent links, which the queries never read.      *)
(***************************************************************************)
\* d is a proper descendant of top: top is reached from d by parent links.
RECURSIVE IsBelow(_, _)
IsBelow(top, d) ==
  /\ parent[d] # Undefined
  /\ (parent[d] = top \/ IsBelow(top, parent[d]))

\* The place of d under top: the index of each Element on the way down from
\* top to d in its parent's children.
RECURSIVE IndexPath(_, _)
IndexPath(top, d) ==
  IF d = top THEN <<>>
  ELSE Append(IndexPath(top, parent[d]),
              CHOOSE i \in 1..Len(children[parent[d]]) :
                children[parent[d]][i] = ElemNode(d))

\* Document order (pre-order) of two places: an ancestor comes before its
\* descendants, and otherwise the earlier branch comes first.
Before(p, r) ==
  \/ Len(p) < Len(r) /\ SubSeq(r, 1, Len(p)) = p
  \/ \E i \in 1..Len(p) :
       /\ i <= Len(r)
       /\ SubSeq(p, 1, i - 1) = SubSeq(r, 1, i - 1)
       /\ p[i] < r[i]

\* An Element matches q as the claim words it: some attribute named ID has
\* the value q.id, or the local name is q.name.
MatchesSomeID(e, q) ==
  \/ /\ q.id # UndefinedStr
     /\ \E i \in 1..Len(shape[e].attrs) :
          shape[e].attrs[i][1].name = ID /\ shape[e].attrs[i][2] = q.id
  \/ q.name # UndefinedStr /\ shape[e].name.name = q.name

\* An Element matches q: the first of its attributes named ID has the value
\* q.id, or the local name is q.name.
MatchesFirstID(e, q) ==
  \/ /\ q.id # UndefinedStr
     /\ \E i \in 1..Len(shape[e].attrs) :
          /\ shape[e].attrs[i][1].name = ID
          /\ shape[e].attrs[i][2] = q.id
          /\ \A j \in 1..(i - 1) : shape[e].attrs[j][1].name # ID
  \/ q.name # UndefinedStr /\ shape[e].name.name = q.name

\* findDescendants yielded exactly the proper descendants that match, each
\* once, in document order, and not the Element it was called on.
YieldsTheMatches(Matches(_, _)) ==
  found.op = "findDescendants" =>
    LET r == found.val
        top == found.this
    IN /\ {r[i] : i \in 1..Len(r)}
            = {d \in made : IsBelow(top, d) /\ Matches(d, found.q)}
       /\ \A i, j \in 1..Len(r) :
            i < j => Before(IndexPath(top, r[i]), IndexPath(top, r[j]))
       /\ \A i \in 1..Len(r) : r[i] # top

\* C7 as stated: findDescendants(q) yields exactly the proper descendant
\* Elements that match q, each once, in pre-order document order, never the
\* Element it was called on, where an Element matches q iff q.id is set and
\* the Element has an attribute named ID with the value q.id, or q.name is
\* set and the local name is q.name.
C7_AsStated == YieldsTheMatches(MatchesSomeID)

\* C7 as amended: the same, where the id of q is compared with the value of
\* the first attribute of the Element whose local name is ID.
C7_FindDescendants == YieldsTheMatches(MatchesFirstID)

\* C7's case: a query with both id and name set yields a child, then that
\* child's child, then a second child; one matched by its ID alone, one by
\* its name alone.
C7_Witness ==
  /\ found.op = "findDescendants"
  /\ found.q.id # UndefinedStr
  /\ found.q.name # UndefinedStr
  /\ Len(found.val) = 3
  /\ parent[found.val[1]] = found.this
  /\ parent[found.val[2]] = found.val[1]
  /\ parent[found.val[3]] = found.this
  /\ \E i \in 1..3 : shape[found.val[i]].name.name # found.q.name
  /\ \E i \in 1..3 : FindAttr(shape[found.val[i]].attrs, ID) = 0

\* The Elements a findAtMostOne query chooses among.
Candidates(op, this, q) ==
  IF op \in {"findAtMostOneChild", "findAtMostOneChildOrThrow"}
    THEN {d \in made : parent[d] = this /\ MatchesFirstID(d, q)}
    ELSE {d \in made : IsBelow(this, d) /\ MatchesFirstID(d, q)}

\* C8: findAtMostOneChild and findAtMostOneDescendant return the match when
\* exactly one child (proper descendant) matches, return nothing when none
\* matches, and fail with MultipleMatches when two or more match; the
\* OrThrow variants do the same but fail with NoMatch when none matches.
C8_AtMostOne ==
  found.op \in {"findAtMostOneChild", "findAtMostOneChildOrThrow",
                "findAtMostOneDescendant", "findAtMostOneDescendantOrThrow"} =>
    LET c == Candidates(found.op, found.this, found.q)
        orThrow == found.op \in {"findAtMostOneChildOrThrow",
                                  "findAtMostOneDescendantOrThrow"}
    IN /\ Cardinality(c) = 1 =>
            found.err = "none" /\ found.val = <<CHOOSE d \in c : TRUE>>
       /\ (Cardinality(c) = 0 /\ ~orThrow) =>
            found.err = "none" /\ found.val = <<Undefined>>
       /\ (Cardinality(c) = 0 /\ orThrow) => found.err = "NoMatch"
       /\ Cardinality(c) >= 2 => found.err = "MultipleMatches"

\* C8's case: among several descendants, the single match is a grandchild.
C8_Witness ==
  /\ found.op = "findAtMostOneDescendantOrThrow"
  /\ found.err = "none"
  /\ parent[found.val[1]] # Undefined
  /\ parent[found.val[1]] # found.this
  /\ Cardinality({d \in made : IsBelow(found.this, d)}) >= 3

(***************************************************************************)
(* Claims about filterOut, checked under SpecFilter.                        *)
(***************************************************************************)
\* The tree under Element e of a heap as a value: names, attributes, texts
\* and the order of the children, not which Elements they are.
RECURSIVE ValueOf(_, _, _)
ValueOf(sh, ch, e) ==
  XmlElement(sh[e].name, sh[e].attrs,
             [i \in 1..Len(ch[e]) |->
                IF ch[e][i].kind = "text" THEN XmlText(ch[e][i].text)
                ELSE ValueOf(sh, ch, ch[e][i].id)])

\* Element e is one the unselector u removes: it matches the XmlQuery u, or
\* it is the Element u.
Unselected(e, u) == IF u \in Queries THEN MatchesFirstID(e, u) ELSE u.elem = e

\* The tree under e without the proper descendants that u removes and what
\* is under them.
RECURSIVE WithoutUnselected(_, _)
WithoutUnselected(e, u) ==
  LET kept == SelectSeq(children[e],
                        LAMBDA c : c.kind = "text" \/ ~Unselected(c.id, u))
  IN XmlElement(shape[e].name, shape[e].attrs,
                [i \in 1..Len(kept) |->
                   IF kept[i].kind = "text" THEN XmlText(kept[i].text)
                   ELSE WithoutUnselected(kept[i].id, u)])

\* The Elements of the tree under e in a heap, e included.
RECURSIVE ElemsUnder(_, _)
ElemsUnder(ch, e) ==
  {e} \cup UNION {ElemsUnder(ch, ch[e][i].id) :
                    i \in {j \in 1..Len(ch[e]) : ch[e][j].kind = "elem"}}

\* C12: filterOut(q) returns a new tree of fresh Elements that equals the
\* tree it was called on with every proper descendant that matches q (or is
\* the given Element) removed with its subtree, hence the same tree when
\* nothing matches; the children, attributes and parent links of the
\* Elements there were are unchanged, and none of them occurs in the result.
C12_FilterOut ==
  [][(found = NoQuery /\ found'.op = "filterOut") =>
       /\ ValueOf(shape', children', found'.val[1])
            = WithoutUnselected(found'.this, found'.q)
       /\ (\A d \in ElemsUnder(children, found'.this) \ {found'.this} :
             ~Unselected(d, found'.q))
            => ValueOf(shape', children', found'.val[1])
                 = ValueOf(shape, children, found'.this)
       /\ \A e \in DOMAIN children :
            /\ children'[e] = children[e]
            /\ shape'[e] = shape[e]
            /\ parent'[e] = parent[e]
       /\ ElemsUnder(children', found'.val[1]) \cap DOMAIN children = {}
       /\ parent'[found'.val[1]] = Undefined
       /\ \A e \in ElemsUnder(children', found'.val[1]) :
            \A i \in 1..Len(children'[e]) :
              children'[e][i].kind = "elem" =>
                parent'[children'[e][i].id] = e]_vars

\* C12's case: filterOut with an XmlQuery removed a child that has a child of
\* its own and kept another child that is an Element.
C12_Witness ==
  /\ found.op = "filterOut"
  /\ found.q \in Queries
  /\ \E d \in made :
       /\ parent[d] = found.this
       /\ MatchesFirstID(d, found.q)
       /\ \E c \in made : parent[c] = d
  /\ \E i \in 1..Len(children[found.val[1]]) :
       children[found.val[1]][i].kind = "elem"

(***************************************************************************)
(* Claims about the tree mutations, checked under Spec.                     *)
(***************************************************************************)
\* The indices of children[p] that hold Element e.
Occurrences(p, e) == {i \in 1..Len(children[p]) : children[p][i] = ElemNode(e)}

\* C1: after any sequence of addChild, detach and deleteChild calls, failing
\* ones included, every Element whose parent is set occurs at exactly one
\* index of that parent's children and in no other Element's children, and
\* every Element that occurs in some children array has that array's owner
\* as its parent.
C1_ParentChildAgree ==
  /\ \A e \in Elems :
       parent[e] # Undefined =>
         /\ Cardinality(Occurrences(parent[e], e)) = 1
         /\ \A p \in Elems \ {parent[e]} : Occurrences(p, e) = {}
  /\ \A p \in Elems : \A i \in 1..Len(children[p]) :
       children[p][i].kind = "elem" => parent[children[p][i].id] = p

\* C1's case: after a call that failed, an Element sits behind another child
\* of its parent while a second Element has been detached again.
C1_Witness ==
  /\ last.err = "AlreadyHasParent"
  /\ \E e \in Elems :
       /\ parent[e] # Undefined
       /\ FindIndex(children[parent[e]], e) > 0
  /\ \E e \in Elems : parent[e] = Undefined /\ children[e] # <<>>

\* C2: addChild of an Element that has a parent fails with AlreadyHasParent
\* at every position that is in range (the default position is); an
\* addChild that fails, with AlreadyHasParent or IndexOutOfRange, leaves
\* every children array and every parent as they were; and once e.detach()
\* has succeeded, e has no parent and addChild(e) on any other Element
\* succeeds and makes that Element the parent of e.
C2_AddChildContract ==
  /\ \A this \in Elems, c \in Elems :
       parent[c] # Undefined =>
         \A pos \in 0..Len(children[this]) :
           addChild(children, parent, this, ElemNode(c), pos).err
             = "AlreadyHasParent"
  /\ \A this \in Elems :
       \A child \in {ElemNode(c) : c \in Elems} \cup {TextNode(t) : t \in Texts} :
         \A pos \in -1..(Len(children[this]) + 1) :
           LET res == addChild(children, parent, this, child, pos)
           IN res.err # "none" =>
                /\ res.err \in {"AlreadyHasParent", "IndexOutOfRange"}
                /\ res.children = children
                /\ res.parent = parent
  /\ (last.op = "detach" /\ last.err = "none") =>
       /\ parent[last.this] = Undefined
       /\ \A other \in Elems \ {last.this} :
            LET res == addChild(children, parent, other, ElemNode(last.this),
                                Len(children[other]))
            IN /\ res.err = "none"
               /\ res.parent[last.this] = other
               /\ res.children[other] = Append(children[other], ElemNode(last.this))

\* C2's case: a detach has just succeeded while another Element still has a
\* parent, so that both a refused and an accepted addChild exist here.
C2_Witness ==
  /\ last.op = "detach"
  /\ last.err = "none"
  /\ \E c \in Elems : parent[c] # Undefined

\* The k-th Element up the parent links from e, Undefined when they end
\* before.
RECURSIVE Up(_, _)
Up(e, k) ==
  IF k = 0 THEN e
  ELSE IF Up(e, k - 1) = Undefined THEN Undefined
  ELSE parent[Up(e, k - 1)]

\* C13: after any sequence of addChild, detach and deleteChild calls the
\* parent links contain no cycle: no Element is its own parent or its own
\* ancestor, so that the walk of findDescendants down the children ends.
C13_NoCycle == \A e \in Elems : \A k \in 1..NumElems : Up(e, k) # e

====
